---- MODULE Spec2Model ----
(***************************************************************************)
(* CCM (CutiContourMasking): ContouredVideoProduction and the CCMGUI       *)
(* handlers that drive it, as a state machine.                             *)
(*                                                                         *)
(* An image is abstracted to its shape <<height, width>>; NoneImg is the   *)
(* None that cv2.imread returns for a file it cannot decode.  The content  *)
(* of an image file is fixed for the duration of a run and is discovered   *)
(* when the file is first read (Unread until then).  Pixels are modelled   *)
(* separately, for the overlay of line 109, under SpecOverlay.  SpecFair   *)
(* is Spec with a started call of ContouredVideoProduction kept running.   *)
(***************************************************************************)
EXTENDS Integers, Sequences, FiniteSets, TLC

\* longest frame list / mask list explored
MaxN == 2

\* image heights and widths explored: heights that numpy cannot broadcast
\* against each other, widths that it can (a width of 1 stretches)
Heights == {2, 3}
Widths == {1, 2}
\* 3x1 is left out: equal sizes, a stretched axis and axes that cannot be
\* broadcast all occur among the other three
Shapes == (Heights \X Widths) \ {<<3, 1>>}

NoneImg == <<0, 0>>
Unread == <<-1, -1>>
ImreadResults == Shapes \cup {NoneImg}

\* default of the fps parameter, and of the FPS entry
DefaultFps == 30

VARIABLES
    mode,               \* "script": the module is imported and the function called; "gui": run as __main__
    pc,                 \* position of the single thread of control
    input_video_path,   \* CCMGUI.input_video_path
    output_video_dir,   \* CCMGUI.output_video_dir
    fps_entry,          \* text of CCMGUI.fps_entry
    progress_bar,       \* [value, maximum] of CCMGUI.progress_bar
    log_text,           \* lines the current (or last) handler appended to CCMGUI.log_text
    messagebox,         \* title of the warning the current (or last) handler showed, "" if none
    found,              \* what the current (or last) handler found in the workspace, as its guards see it
    segmented_frames,   \* argument: per path, what cv2.imread finds there
    masks,              \* argument: per path, what cv2.imread finds there
    fps,                \* argument
    progress_callback,  \* argument: TRUE when a callable was passed
    made_dir,           \* os.makedirs was called for the output directory
    height, width,      \* locals of line 82
    video_writer,       \* how cv2.VideoWriter(...) went: "none" (not constructed) | "opened" | "failed"
    release_calls,      \* number of video_writer.release() calls
    i,                  \* loop variable of line 93
    writes,             \* the video_writer.write calls so far: [index, shape]
    progress,           \* the values passed to progress_callback so far
    printed,            \* what the function printed: [msg, index]
    outcome,            \* "none" | "return" (returned None) | "IndexError" | "ValueError"
    px_original,        \* overlay of line 109 on pixels: original_image
    px_edges,           \* overlay on pixels: edges, the output of cv2.Canny
    px_contoured,       \* overlay on pixels: contoured_image, <<>> before it is computed
    px_outcome          \* overlay on pixels: "none" | "done" | "ValueError"

gui_vars == <<input_video_path, output_video_dir, fps_entry, progress_bar, log_text, messagebox,
              found>>
arg_vars == <<segmented_frames, masks, fps, progress_callback>>
run_vars == <<made_dir, height, width, video_writer, release_calls, i, writes, progress, printed, outcome>>
px_vars == <<px_original, px_edges, px_contoured, px_outcome>>
vars == <<mode, pc, gui_vars, arg_vars, run_vars, px_vars>>

----------------------------------------------------------------------------
(* Library functions, by what they do to a shape *)

\* cv2.imread(path): the image stored at the path, None when it cannot be decoded
imread(file) == IF file = Unread THEN ImreadResults ELSE {file}

\* numpy broadcasting of one axis
BroadcastableAxis(a, b) == a = b \/ a = 1 \/ b = 1
BroadcastAxis(a, b) == IF a >= b THEN a ELSE b

\* np.where(colored_edges > 0, (255, 255, 255), original_image): the three operands
\* are broadcast against each other; the edge map has the shape of the mask
WhereRaises(mask_shape, image_shape) ==
    ~ (BroadcastableAxis(mask_shape[1], image_shape[1])
       /\ BroadcastableAxis(mask_shape[2], image_shape[2]))

WhereShape(mask_shape, image_shape) ==
    <<BroadcastAxis(mask_shape[1], image_shape[1]), BroadcastAxis(mask_shape[2], image_shape[2])>>

\* int(text) of the FPS entry; IntOk is FALSE where int raises ValueError
IntOk(text) == text \in {"30", "24", "0", "-5"}
IntOf(text) ==
    CASE text = "30" -> 30
      [] text = "24" -> 24
      [] text = "0" -> 0
      [] text = "-5" -> -5
      [] OTHER -> 0

\* lines 276-295: the workspace as the guards of process_video see it; the globs of
\* lines 285-286 run only when the folder exists
Look(isdir, nF, nM) == [isdir |-> isdir, frames |-> isdir /\ nF > 0, masks |-> isdir /\ nM > 0]
\* process_video has not looked at the workspace
NotLooked == Look(FALSE, 0, 0)

Msg(m) == [msg |-> m, index |-> -1]
MsgAt(m, k) == [msg |-> m, index |-> k]

----------------------------------------------------------------------------
\* the state after construction, but for mode and the pixel variables
Constructed ==
    /\ pc = "idle"
    /\ input_video_path = ""
    /\ output_video_dir = ""
    /\ fps_entry = "30"
    /\ progress_bar = [value |-> 0, maximum |-> 100]
    /\ log_text = <<>>
    /\ messagebox = ""
    /\ found = NotLooked
    /\ segmented_frames = <<>>
    /\ masks = <<>>
    /\ fps = DefaultFps
    /\ progress_callback = FALSE
    /\ made_dir = FALSE
    /\ height = 0
    /\ width = 0
    /\ video_writer = "none"
    /\ release_calls = 0
    /\ i = 0
    /\ writes = <<>>
    /\ progress = <<>>
    /\ printed = <<>>
    /\ outcome = "none"

Init ==
    /\ mode \in {"script", "gui"}
    /\ Constructed
    /\ px_original = <<>>
    /\ px_edges = <<>>
    /\ px_contoured = <<>>
    /\ px_outcome = "none"

\* entry of ContouredVideoProduction: fresh locals
Enter ==
    /\ made_dir' = FALSE
    /\ height' = 0
    /\ width' = 0
    /\ video_writer' = "none"
    /\ release_calls' = 0
    /\ i' = 0
    /\ writes' = <<>>
    /\ progress' = <<>>
    /\ printed' = <<>>
    /\ outcome' = "none"

FileList(n) == [k \in 1..n |-> Unread]

----------------------------------------------------------------------------
(* A script that imports the module and calls ContouredVideoProduction *)

ScriptCall ==
    /\ mode = "script"
    /\ pc \in {"idle", "done"}
    /\ \E nF \in 0..MaxN, nM \in 0..MaxN, cb \in BOOLEAN :
        /\ segmented_frames' = FileList(nF)
        /\ masks' = FileList(nM)
        /\ progress_callback' = cb
    /\ fps' = DefaultFps
    /\ Enter
    /\ pc' = "makedirs"
    /\ UNCHANGED <<mode, px_vars, gui_vars>>

----------------------------------------------------------------------------
(* CCMGUI handlers *)

\* lines 210-222; the dialog returns "" when it is cancelled
select_input_video ==
    /\ mode = "gui"
    /\ pc \in {"idle", "done"}
    /\ \E file_path \in {"", "video.mp4"} :
        IF file_path # ""
        THEN /\ input_video_path' = file_path
             /\ log_text' = <<Msg("Input video selected")>>
        ELSE /\ log_text' = <<>>
             /\ UNCHANGED input_video_path
    /\ messagebox' = ""
    /\ found' = NotLooked
    /\ UNCHANGED <<mode, px_vars, pc, output_video_dir, fps_entry, progress_bar, arg_vars, run_vars>>

\* lines 224-236
select_output_directory ==
    /\ mode = "gui"
    /\ pc \in {"idle", "done"}
    /\ \E directory \in {"", "out"} :
        IF directory # ""
        THEN /\ output_video_dir' = directory
             /\ log_text' = <<Msg("Output directory selected")>>
        ELSE /\ log_text' = <<>>
             /\ UNCHANGED output_video_dir
    /\ messagebox' = ""
    /\ found' = NotLooked
    /\ UNCHANGED <<mode, px_vars, pc, input_video_path, fps_entry, progress_bar, arg_vars, run_vars>>

\* texts the FPS entry may hold when Process is pressed (line 299 reads the widget)
FpsTexts == {"30", "24", "0", "-5", "abc"}

\* lines 238-250
update_progress(value) == progress_bar' = [progress_bar EXCEPT !.value = value]

\* lines 262-269: a selection is missing
process_video_Warn ==
    /\ mode = "gui"
    /\ pc \in {"idle", "done"}
    /\ input_video_path = "" \/ output_video_dir = ""
    /\ messagebox' = IF input_video_path = "" THEN "No Input Video" ELSE "No Output Directory"
    /\ log_text' = <<>>
    /\ found' = NotLooked
    /\ UNCHANGED <<mode, px_vars, pc, input_video_path, output_video_dir, fps_entry, progress_bar,
                   arg_vars, run_vars>>

\* lines 271-295: the workspace folder is missing, or one of the two globs finds nothing
process_video_NotFound ==
    /\ mode = "gui"
    /\ pc \in {"idle", "done"}
    /\ input_video_path # "" /\ output_video_dir # ""
    /\ \E isdir \in BOOLEAN, nF \in 0..MaxN, nM \in 0..MaxN :
        /\ ~isdir \/ nF = 0 \/ nM = 0
        /\ found' = Look(isdir, nF, nM)
        /\ log_text' = <<Msg(IF ~isdir THEN "Workspace folder does not exist"
                             ELSE IF nF = 0 THEN "No segmented frames found"
                             ELSE "No masks found")>>
    /\ messagebox' = ""
    /\ UNCHANGED <<mode, px_vars, pc, input_video_path, output_video_dir, fps_entry, progress_bar,
                   arg_vars, run_vars>>

\* (mutation of process_video_Call: the guard of lines 293-295 is missing)
process_video_Call_NoMaskGuard ==
    /\ mode = "gui"
    /\ pc \in {"idle", "done"}
    /\ input_video_path # "" /\ output_video_dir # ""
    /\ \E nF \in 1..MaxN, nM \in 0..MaxN :
        /\ segmented_frames' = FileList(nF)
        /\ masks' = FileList(nM)
        /\ progress_bar' = [value |-> 0, maximum |-> nF]
        /\ found' = Look(TRUE, nF, nM)
    /\ \E text \in FpsTexts :
        /\ fps_entry' = text
        /\ fps' = IF IntOk(text) THEN IntOf(text) ELSE DefaultFps
        /\ log_text' = (IF IntOk(text) THEN <<>> ELSE <<Msg("FPS value is invalid")>>)
                           \o <<Msg("Processing started")>>
    /\ messagebox' = ""
    /\ progress_callback' = TRUE
    /\ Enter
    /\ pc' = "makedirs"
    /\ UNCHANGED <<mode, px_vars, input_video_path, output_video_dir>>

\* lines 262-311: every guard passes; ends in the call of ContouredVideoProduction
process_video_Call ==
    /\ mode = "gui"
    /\ pc \in {"idle", "done"}
    /\ input_video_path # "" /\ output_video_dir # ""
    /\ \E nF \in 1..MaxN, nM \in 1..MaxN :
        /\ segmented_frames' = FileList(nF)
        /\ masks' = FileList(nM)
        /\ progress_bar' = [value |-> 0, maximum |-> nF]
        /\ found' = Look(TRUE, nF, nM)
    /\ \E text \in FpsTexts :
        /\ fps_entry' = text
        /\ fps' = IF IntOk(text) THEN IntOf(text) ELSE DefaultFps
        /\ log_text' = (IF IntOk(text) THEN <<>> ELSE <<Msg("FPS value is invalid")>>)
                           \o <<Msg("Processing started")>>
    /\ messagebox' = ""
    /\ progress_callback' = TRUE
    /\ Enter
    /\ pc' = "makedirs"
    /\ UNCHANGED <<mode, px_vars, input_video_path, output_video_dir>>

----------------------------------------------------------------------------
(* ContouredVideoProduction, lines 57-120 *)

\* (mutation of LoopAt: the loop stops one index early)
LoopAt_StopsEarly(k) == IF k + 1 < Len(segmented_frames) THEN "read_pair" ELSE "release"

\* (mutation of LoopAt: the loop runs over zip(segmented_frames, masks))
LoopAt_Zip(k) ==
    IF k < Len(segmented_frames) /\ k < Len(masks) THEN "read_pair" ELSE "release"

\* line 93: the next position once index k is reached
LoopAt(k) == IF k < Len(segmented_frames) THEN "read_pair" ELSE "release"

\* return None (lines 75, 81, end of the function)
ReturnNone == outcome' = "return" /\ pc' = "exit"

\* an exception leaves the function: nothing after the raising line runs
Raise(e) == outcome' = e /\ pc' = "exit"

\* lines 57-70
CVP_MakeDir ==
    /\ pc = "makedirs"
    /\ \E exists \in BOOLEAN : made_dir' = ~exists
    /\ pc' = "check_empty"
    /\ UNCHANGED <<mode, px_vars, gui_vars, arg_vars, height, width, video_writer, release_calls, i,
                   writes, progress, printed, outcome>>

\* (mutation of CVP_CheckEmpty: the message is printed without the return)
CVP_CheckEmpty_NoReturn ==
    /\ pc = "check_empty"
    /\ printed' = IF Len(segmented_frames) = 0
                  THEN Append(printed, Msg("No segmented frames available"))
                  ELSE printed
    /\ pc' = "read_first"
    /\ UNCHANGED <<mode, px_vars, gui_vars, arg_vars, made_dir, height, width, video_writer,
                   release_calls, i, writes, progress, outcome>>

\* lines 72-75
CVP_CheckEmpty ==
    /\ pc = "check_empty"
    /\ IF Len(segmented_frames) = 0
       THEN /\ printed' = Append(printed, Msg("No segmented frames available"))
            /\ ReturnNone
       ELSE /\ pc' = "read_first"
            /\ UNCHANGED <<printed, outcome>>
    /\ UNCHANGED <<mode, px_vars, gui_vars, arg_vars, made_dir, height, width, video_writer,
                   release_calls, i, writes, progress>>

\* (mutation of CVP_ReadFirst: the result of imread is not tested)
CVP_ReadFirst_Unchecked ==
    /\ pc = "read_first"
    /\ \E frame \in imread(segmented_frames[1]) :
        /\ segmented_frames' = [segmented_frames EXCEPT ![1] = frame]
        /\ height' = frame[1]
        /\ width' = frame[2]
    /\ pc' = "open_writer"
    /\ UNCHANGED <<mode, px_vars, gui_vars, masks, fps, progress_callback, made_dir,
                   video_writer, release_calls, i, writes, progress, printed, outcome>>

\* lines 77-82
CVP_ReadFirst ==
    /\ pc = "read_first"
    /\ \E frame \in imread(segmented_frames[1]) :
        /\ segmented_frames' = [segmented_frames EXCEPT ![1] = frame]
        /\ IF frame = NoneImg
           THEN /\ printed' = Append(printed, Msg("Failed to read first frame"))
                /\ ReturnNone
                /\ UNCHANGED <<height, width>>
           ELSE /\ height' = frame[1]
                /\ width' = frame[2]
                /\ pc' = "open_writer"
                /\ UNCHANGED <<printed, outcome>>
    /\ UNCHANGED <<mode, px_vars, gui_vars, masks, fps, progress_callback, made_dir, video_writer,
                   release_calls, i, writes, progress>>

\* lines 84-90: cv2.VideoWriter does not raise when the container cannot be created
CVP_OpenWriter ==
    /\ pc = "open_writer"
    /\ \E refused \in BOOLEAN : video_writer' = IF refused THEN "failed" ELSE "opened"
    /\ i' = 0
    /\ pc' = LoopAt(0)
    /\ UNCHANGED <<mode, px_vars, gui_vars, arg_vars, made_dir, height, width, release_calls,
                   writes, progress, printed, outcome>>

\* lines 93-97: masks[i] raises IndexError past the end of the mask list
CVP_ReadPair ==
    /\ pc = "read_pair"
    /\ \E original_image \in imread(segmented_frames[i + 1]) :
        /\ segmented_frames' = [segmented_frames EXCEPT ![i + 1] = original_image]
        /\ IF i >= Len(masks)
           THEN /\ Raise("IndexError")
                /\ UNCHANGED masks
           ELSE /\ \E mask \in imread(masks[i + 1]) :
                     masks' = [masks EXCEPT ![i + 1] = mask]
                /\ pc' = "check"
                /\ UNCHANGED outcome
    /\ UNCHANGED <<mode, px_vars, gui_vars, fps, progress_callback, made_dir, height, width,
                   video_writer, release_calls, i, writes, progress, printed>>

original_image == segmented_frames[i + 1]
mask == masks[i + 1]

\* (mutation of CVP_Skip: break instead of continue)
CVP_Skip_Breaks ==
    /\ pc = "check"
    /\ original_image = NoneImg \/ mask = NoneImg
    /\ printed' = Append(printed, MsgAt("Error reading frame or mask", i))
    /\ pc' = "release"
    /\ UNCHANGED <<mode, px_vars, gui_vars, arg_vars, made_dir, height, width, video_writer,
                   release_calls, i, writes, progress, outcome>>

\* (mutation of CVP_Skip: the callback is invoked for a skipped pair too)
CVP_Skip_Notifies ==
    /\ pc = "check"
    /\ original_image = NoneImg \/ mask = NoneImg
    /\ printed' = Append(printed, MsgAt("Error reading frame or mask", i))
    /\ IF progress_callback
       THEN /\ progress' = Append(progress, i + 1)
            /\ IF mode = "gui" THEN update_progress(i + 1) ELSE UNCHANGED progress_bar
       ELSE UNCHANGED <<progress, progress_bar>>
    /\ i' = i + 1
    /\ pc' = LoopAt(i + 1)
    /\ UNCHANGED <<mode, px_vars, input_video_path, output_video_dir, fps_entry, log_text, messagebox,
                   found, arg_vars, made_dir, height, width, video_writer, release_calls, writes, outcome>>

\* (mutation of CVP_Skip: the skipped pair is read again, silently)
CVP_Skip_ReadAgain ==
    /\ pc = "check"
    /\ original_image = NoneImg \/ mask = NoneImg
    /\ pc' = "read_pair"
    /\ UNCHANGED <<mode, px_vars, gui_vars, arg_vars, made_dir, height, width, video_writer,
                   release_calls, i, writes, progress, printed, outcome>>

\* (mutation of CVP_Skip: the skipped pair is retried, the index is not advanced)
CVP_Skip_Retry ==
    /\ pc = "check"
    /\ original_image = NoneImg \/ mask = NoneImg
    /\ printed' = Append(printed, MsgAt("Error reading frame or mask", i))
    /\ pc' = "read_pair"
    /\ UNCHANGED <<mode, px_vars, gui_vars, arg_vars, made_dir, height, width, video_writer,
                   release_calls, i, writes, progress, outcome>>

\* lines 98-101
CVP_Skip ==
    /\ pc = "check"
    /\ original_image = NoneImg \/ mask = NoneImg
    /\ printed' = Append(printed, MsgAt("Error reading frame or mask", i))
    /\ i' = i + 1
    /\ pc' = LoopAt(i + 1)
    /\ UNCHANGED <<mode, px_vars, gui_vars, arg_vars, made_dir, height, width, video_writer,
                   release_calls, writes, progress, outcome>>

\* lines 103-109, when numpy cannot broadcast the edge map against the frame
CVP_OverlayRaises ==
    /\ pc = "check"
    /\ original_image # NoneImg /\ mask # NoneImg
    /\ WhereRaises(mask, original_image)
    /\ Raise("ValueError")
    /\ UNCHANGED <<mode, px_vars, gui_vars, arg_vars, made_dir, height, width, video_writer,
                   release_calls, i, writes, progress, printed>>

\* lines 103-111
CVP_Write ==
    /\ pc = "check"
    /\ original_image # NoneImg /\ mask # NoneImg
    /\ ~WhereRaises(mask, original_image)
    /\ writes' = Append(writes, [index |-> i, shape |-> WhereShape(mask, original_image)])
    /\ pc' = "progress"
    /\ UNCHANGED <<mode, px_vars, gui_vars, arg_vars, made_dir, height, width, video_writer,
                   release_calls, i, progress, printed, outcome>>

\* (mutation of CVP_Progress: the loop index is not advanced after a write)
CVP_Progress_NoAdvance ==
    /\ pc = "progress"
    /\ IF progress_callback
       THEN /\ progress' = Append(progress, i + 1)
            /\ IF mode = "gui" THEN update_progress(i + 1) ELSE UNCHANGED progress_bar
       ELSE UNCHANGED <<progress, progress_bar>>
    /\ pc' = LoopAt(i)
    /\ UNCHANGED <<mode, px_vars, input_video_path, output_video_dir, fps_entry, log_text, messagebox,
                   found, arg_vars, made_dir, height, width, video_writer, release_calls, i, writes,
                   printed, outcome>>

\* lines 113-115, and line 93 for the next index
CVP_Progress ==
    /\ pc = "progress"
    /\ IF progress_callback
       THEN /\ progress' = Append(progress, i + 1)
            /\ IF mode = "gui" THEN update_progress(i + 1) ELSE UNCHANGED progress_bar
       ELSE UNCHANGED <<progress, progress_bar>>
    /\ i' = i + 1
    /\ pc' = LoopAt(i + 1)
    /\ UNCHANGED <<mode, px_vars, input_video_path, output_video_dir, fps_entry, log_text, messagebox,
                   found, arg_vars, made_dir, height, width, video_writer, release_calls, writes,
                   printed, outcome>>

\* lines 117-120
CVP_Release ==
    /\ pc = "release"
    /\ release_calls' = release_calls + 1
    /\ printed' = Append(printed, Msg("Video saved"))
    /\ ReturnNone
    /\ UNCHANGED <<mode, px_vars, gui_vars, arg_vars, made_dir, height, width, video_writer, i,
                   writes, progress>>

----------------------------------------------------------------------------
(* Back in the caller *)

\* the script gets None or the exception
ScriptResume ==
    /\ mode = "script"
    /\ pc = "exit"
    /\ pc' = "done"
    /\ UNCHANGED <<mode, px_vars, gui_vars, arg_vars, run_vars>>

\* line 312 after a return; an exception leaves process_video before line 312
process_video_Resume ==
    /\ mode = "gui"
    /\ pc = "exit"
    /\ log_text' = IF outcome = "return"
                   THEN Append(log_text, Msg("Processing completed"))
                   ELSE log_text
    /\ pc' = "done"
    /\ UNCHANGED <<mode, px_vars, input_video_path, output_video_dir, fps_entry, progress_bar,
                   messagebox, found, arg_vars, run_vars>>

Next ==
    \/ ScriptCall
    \/ select_input_video
    \/ select_output_directory
    \/ process_video_Warn
    \/ process_video_NotFound
    \/ process_video_Call
    \/ CVP_MakeDir
    \/ CVP_CheckEmpty
    \/ CVP_ReadFirst
    \/ CVP_OpenWriter
    \/ CVP_ReadPair
    \/ CVP_Skip
    \/ CVP_OverlayRaises
    \/ CVP_Write
    \/ CVP_Progress
    \/ CVP_Release
    \/ ScriptResume
    \/ process_video_Resume

Spec == Init /\ [][Next]_vars

\* a step of ContouredVideoProduction
CVP_Step ==
    \/ CVP_MakeDir
    \/ CVP_CheckEmpty
    \/ CVP_ReadFirst
    \/ CVP_OpenWriter
    \/ CVP_ReadPair
    \/ CVP_Skip
    \/ CVP_OverlayRaises
    \/ CVP_Write
    \/ CVP_Progress
    \/ CVP_Release

\* the function body is straight-line Python on one thread: a call that has started
\* keeps executing (every call it makes, imread, write, the callback, returns)
SpecFair == Spec /\ WF_vars(CVP_Step)

----------------------------------------------------------------------------
(* Lines 105-109 on pixels.  An image is a sequence of rows, a row a        *)
(* sequence of pixels, a pixel <<b, g, r>>; an edge map has one channel.    *)

\* longest side of the pixel grids explored
GridH == 1
GridW == 2

White == <<255, 255, 255>>
PixelValues == {<<0, 0, 0>>, <<10, 128, 255>>, White}
\* cv2.Canny marks an edge with 255, everything else with 0
EdgeValues == {0, 255}

Grids(S) == UNION {[1..h -> [1..w -> S]] : h \in 1..GridH, w \in 1..GridW}
ShapeOf(img) == <<Len(img), Len(img[1])>>

\* cv2.cvtColor(edges, cv2.COLOR_GRAY2BGR): the channel, three times
cvtColor_GRAY2BGR(edges) ==
    [r \in 1..Len(edges) |-> [c \in 1..Len(edges[r]) |-> <<edges[r][c], edges[r][c], edges[r][c]>>]]

\* numpy reads an axis of length 1 at its only position
At(img, r, c) ==
    img[IF Len(img) = 1 THEN 1 ELSE r][IF Len(img[1]) = 1 THEN 1 ELSE c]

\* .astype(np.uint8)
astype_uint8(v) == v % 256

\* (mutation of np_where: the two value operands are swapped)
np_where_Swapped(colored_edges, original) ==
    LET shape == WhereShape(ShapeOf(colored_edges), ShapeOf(original))
    IN [r \in 1..shape[1] |-> [c \in 1..shape[2] |->
           [ch \in 1..3 |-> astype_uint8(IF At(colored_edges, r, c)[ch] > 0
                                         THEN At(original, r, c)[ch]
                                         ELSE White[ch])]]]

\* np.where(colored_edges > 0, (255, 255, 255), original_image).astype(np.uint8)
np_where(colored_edges, original) ==
    LET shape == WhereShape(ShapeOf(colored_edges), ShapeOf(original))
    IN [r \in 1..shape[1] |-> [c \in 1..shape[2] |->
           [ch \in 1..3 |-> astype_uint8(IF At(colored_edges, r, c)[ch] > 0
                                         THEN White[ch]
                                         ELSE At(original, r, c)[ch])]]]

OverlayInit ==
    /\ mode = "script"
    /\ Constructed
    /\ px_original \in Grids(PixelValues)
    /\ px_edges \in Grids(EdgeValues)
    /\ px_contoured = <<>>
    /\ px_outcome = "none"

\* lines 105-109
Overlay ==
    /\ px_outcome = "none"
    /\ IF WhereRaises(ShapeOf(px_edges), ShapeOf(px_original))
       THEN /\ px_outcome' = "ValueError"
            /\ UNCHANGED px_contoured
       ELSE /\ px_contoured' = np_where(cvtColor_GRAY2BGR(px_edges), px_original)
            /\ px_outcome' = "done"
    /\ UNCHANGED <<mode, pc, gui_vars, arg_vars, run_vars, px_original, px_edges>>

SpecOverlay == OverlayInit /\ [][Overlay]_vars

----------------------------------------------------------------------------
(* Vocabulary of the properties *)

N == Len(segmented_frames)

\* the call has ended, by a return or by an exception
Ended == outcome # "none"

\* the run went through the whole loop and released the writer (line 120)
Completed ==
    /\ outcome = "return"
    /\ printed # <<>>
    /\ printed[Len(printed)].msg = "Video saved"

\* the call ended anywhere else
Aborted == Ended /\ ~Completed

\* no file read so far failed to decode; a file not yet read may hold any image
NoDecodeFailure ==
    /\ \A k \in 1..N : segmented_frames[k] # NoneImg
    /\ \A k \in 1..Len(masks) : masks[k] # NoneImg

\* every image decoded so far has the size of the first frame
OneSize ==
    /\ \A k \in 1..N : segmented_frames[k] \in {segmented_frames[1], NoneImg, Unread}
    /\ \A k \in 1..Len(masks) : masks[k] \in {segmented_frames[1], NoneImg, Unread}

WrittenIndices == {writes[k].index : k \in 1..Len(writes)}
SkippedIndices == {printed[k].index : k \in {j \in 1..Len(printed) : printed[j].msg = "Error reading frame or mask"}}

\* the pair at index k (0-based) has been read and both images decoded
PairDecoded(k) ==
    /\ k < N /\ k < Len(masks)
    /\ segmented_frames[k + 1] \in Shapes
    /\ masks[k + 1] \in Shapes

----------------------------------------------------------------------------
(* C1 *)

\* C1 as claimed: a run over N >= 1 frames and N masks that all decode writes
\* exactly N frames, one per index 0..N-1, each of the first frame's size, and completes.
C1_AsClaimed ==
    (Ended /\ N >= 1 /\ Len(masks) = N /\ NoDecodeFailure)
        => /\ Completed
           /\ Len(writes) = N
           /\ \A k \in 1..Len(writes) :
                writes[k] = [index |-> k - 1, shape |-> <<height, width>>]

\* C1, amended: the same, for inputs whose frames and masks all have the size of the
\* first frame.
C1_UniformInputs ==
    (Ended /\ N >= 1 /\ Len(masks) = N /\ NoDecodeFailure /\ OneSize)
        => /\ Completed
           /\ Len(writes) = N
           /\ \A k \in 1..Len(writes) :
                writes[k] = [index |-> k - 1, shape |-> <<height, width>>]

\* a completed run over MaxN same-size pairs
C1_Witness ==
    /\ Completed /\ N = MaxN /\ Len(masks) = N /\ NoDecodeFailure /\ OneSize
    /\ video_writer = "opened"
    /\ Len(writes) = N

----------------------------------------------------------------------------
(* C2 *)

\* C2: whenever the loop is about to take index i (or has left), the callback has been
\* invoked once for each of the i pairs visited, skipped ones included, with 1, 2, ..., i.
C2_OncePerVisitedPair ==
    (progress_callback /\ pc \in {"read_pair", "release"})
        => progress = [k \in 1..i |-> k]

----------------------------------------------------------------------------
(* C3 *)

\* the pair at index k may decode: nothing read at k failed
PairMayDecode(k) ==
    /\ k < N /\ k < Len(masks)
    /\ segmented_frames[k + 1] # NoneImg
    /\ masks[k + 1] # NoneImg

\* C3 as claimed: in a run over N pairs in which a pair was skipped, every later pair
\* that decodes is written and the writer is released at the end.
C3_AsClaimed ==
    (Ended /\ Len(masks) = N /\ SkippedIndices # {})
        => /\ release_calls = 1
           /\ \A k \in 0..(N - 1) :
                ((\E j \in SkippedIndices : j < k) /\ PairMayDecode(k)) => k \in WrittenIndices

\* C3, amended: in a run over N pairs whose first frame decodes and whose decodable
\* images all have the first frame's size, the run completes and releases the writer,
\* exactly the pairs that decode are written, the others are skipped; so one
\* undecodable pair gives N-1 frames written and 1 skipped.
C3_SkipAndContinue ==
    (Ended /\ N >= 1 /\ Len(masks) = N /\ segmented_frames[1] \in Shapes /\ OneSize)
        => /\ Completed
           /\ release_calls = 1
           /\ WrittenIndices = {k \in 0..(N - 1) : PairDecoded(k)}
           /\ SkippedIndices = {k \in 0..(N - 1) : ~PairDecoded(k)}
           /\ Len(writes) + Cardinality(SkippedIndices) = N

\* index 0 was skipped for its mask and index 1, a later pair, was written
C3_Witness ==
    /\ Completed /\ OneSize
    /\ N = 2 /\ Len(masks) = 2
    /\ SkippedIndices = {0}
    /\ WrittenIndices = {1}

----------------------------------------------------------------------------
(* C4 *)

\* C4 as claimed: with fewer masks than frames the run ends in the IndexError of
\* masks[i] at i = len(masks), and no frame of an index >= i is written.
C4_AsClaimed ==
    (Ended /\ Len(masks) < N)
        => /\ outcome = "IndexError"
           /\ i = Len(masks)
           /\ \A k \in WrittenIndices : k < Len(masks)

\* C4, amended: the same, when the first frame decodes and the images decoded before
\* index i all have the first frame's size; the pairs before i are written or skipped
\* as usual.
C4_MissingMaskAborts ==
    (Ended /\ Len(masks) < N /\ segmented_frames[1] \in Shapes /\ OneSize)
        => /\ outcome = "IndexError"
           /\ i = Len(masks)
           /\ WrittenIndices = {k \in 0..(Len(masks) - 1) : PairDecoded(k)}
           /\ SkippedIndices = {k \in 0..(Len(masks) - 1) : ~PairDecoded(k)}
           /\ release_calls = 0

\* two frames, one mask: index 0 written, IndexError at index 1
C4_Witness ==
    /\ outcome = "IndexError"
    /\ N = 2 /\ Len(masks) = 1
    /\ i = 1
    /\ WrittenIndices = {0}

----------------------------------------------------------------------------
(* C5 *)

\* C5: a run that opened the writer successfully has, when it ends, called release
\* exactly once, whichever way it ends.
C5_ReleasedOnEveryExit ==
    (Ended /\ video_writer = "opened") => release_calls = 1

----------------------------------------------------------------------------
(* C6 *)

\* C6: with an empty frame list the writer is never constructed (so no output file),
\* nothing is written, the callback is never invoked, and the call ends by the
\* return of line 75.
C6_EmptyInputAborts ==
    (N = 0 /\ pc \notin {"idle", "makedirs", "check_empty"})
        => /\ pc \in {"exit", "done"}
           /\ Aborted
           /\ video_writer = "none"
           /\ writes = <<>>
           /\ progress = <<>>
           /\ printed = <<Msg("No segmented frames available")>>

\* a call with an empty frame list (and a callback) has returned
C6_Witness ==
    /\ N = 0 /\ pc = "done" /\ outcome = "return"
    /\ progress_callback /\ Len(masks) > 0

----------------------------------------------------------------------------
(* C7 *)

\* C7: once the first frame has failed to decode the call has ended by the return of
\* line 81: the writer is never constructed, nothing is written, the callback is
\* never invoked and no other file is read.
C7_FirstFrameAborts ==
    (N >= 1 /\ segmented_frames[1] = NoneImg)
        => /\ pc \in {"exit", "done"}
           /\ Aborted
           /\ video_writer = "none"
           /\ writes = <<>>
           /\ progress = <<>>
           /\ \A k \in 2..N : segmented_frames[k] = Unread
           /\ \A k \in 1..Len(masks) : masks[k] = Unread
           /\ printed = <<Msg("Failed to read first frame")>>

\* the first of MaxN frames failed to decode and the call has returned
C7_Witness ==
    /\ N = MaxN /\ Len(masks) = MaxN
    /\ segmented_frames[1] = NoneImg
    /\ pc = "done" /\ outcome = "return"

----------------------------------------------------------------------------
(* C9 *)

\* C9: every frame passed to write has the size the writer was opened with; a frame
\* that decodes to another size is not written and the run does not complete.
C9_FixedGeometry ==
    video_writer = "opened"
        => /\ \A k \in 1..Len(writes) : writes[k].shape = <<height, width>>
           /\ \A k \in 1..N :
                segmented_frames[k] \in Shapes \ {<<height, width>>}
                    => /\ (k - 1) \notin WrittenIndices
                       /\ ~Completed

----------------------------------------------------------------------------
(* C10 *)

\* C10: a call that aborted does not end like one that completed (a plain return of
\* None), and the GUI logs "Processing completed" only for a run that completed.
C10_AbortReported ==
    /\ Aborted => outcome # "return"
    /\ (mode = "gui" /\ \E k \in 1..Len(log_text) : log_text[k].msg = "Processing completed")
           => Completed

----------------------------------------------------------------------------
(* C8, under SpecOverlay *)

Positions == (1..Len(px_original)) \X (1..Len(px_original[1]))
SameSize == ShapeOf(px_original) = ShapeOf(px_edges)

\* C8 as claimed: for a frame and an edge map of equal size, the output pixel is white
\* exactly where the edge map marks an edge, and is the original pixel elsewhere.
C8_AsClaimed ==
    (px_outcome = "done" /\ SameSize)
        => \A p \in Positions :
            /\ px_contoured[p[1]][p[2]] = White <=> px_edges[p[1]][p[2]] # 0
            /\ px_edges[p[1]][p[2]] = 0 => px_contoured[p[1]][p[2]] = px_original[p[1]][p[2]]

\* C8, amended: for a frame and an edge map of equal size the output has that size,
\* the output pixel is white where the edge map marks an edge and is the original
\* pixel elsewhere; a white output pixel therefore marks an edge or a white original.
C8_OverlayRule ==
    (px_outcome = "done" /\ SameSize)
        => /\ ShapeOf(px_contoured) = ShapeOf(px_original)
           /\ \A p \in Positions :
                /\ px_edges[p[1]][p[2]] # 0 => px_contoured[p[1]][p[2]] = White
                /\ px_edges[p[1]][p[2]] = 0 => px_contoured[p[1]][p[2]] = px_original[p[1]][p[2]]
                /\ px_contoured[p[1]][p[2]] = White
                       <=> (px_edges[p[1]][p[2]] # 0 \/ px_original[p[1]][p[2]] = White)

\* an edge over a coloured pixel next to a white pixel that is no edge
C8_Witness ==
    /\ px_outcome = "done"
    /\ px_original = <<<< <<10, 128, 255>>, White >>>>
    /\ px_edges = <<<<255, 0>>>>
    /\ px_contoured = <<<<White, White>>>>

----------------------------------------------------------------------------
(* C11 *)

\* C11: when the writer could not be opened the run is over at once: it has aborted,
\* no write was attempted, no progress callback was invoked, and release was called.
C11_OpenFailureAborts ==
    video_writer = "failed"
        => /\ pc \in {"exit", "done"}
           /\ Aborted
           /\ writes = <<>>
           /\ progress = <<>>
           /\ release_calls = 1

----------------------------------------------------------------------------
(* C12 *)

\* C12: a call with an empty frame list has no I/O side effect: it does not create
\* the destination directory.
C12_EmptyInputNoSideEffect ==
    (N = 0 /\ pc # "idle") => ~made_dir

----------------------------------------------------------------------------
(* C13 *)

\* C13: the frame rate process_video hands to ContouredVideoProduction, and so to
\* the writer, is a positive integer whatever text the FPS entry holds.
C13_PositiveFps ==
    (mode = "gui" /\ pc \notin {"idle"}) => fps > 0

----------------------------------------------------------------------------
(* C14 *)

\* C14: the indices of the frames passed to write are strictly increasing in the
\* order of the calls, so no index is written twice and none after a later one.
C14_WritesInIndexOrder ==
    \A j, k \in 1..Len(writes) : j < k => writes[j].index < writes[k].index

\* MaxN frames were written, one per index
C14_Witness ==
    /\ Len(writes) = MaxN
    /\ \A k \in 1..MaxN : writes[k].index = k - 1

----------------------------------------------------------------------------
(* C15 *)

\* C15: a frame is passed to write only while the writer is open, that is after it
\* was opened and before release; once release was called the run makes no further
\* step on the writer; and the writer is constructed and released at most once per run.
C15_SinkLifecycle ==
    /\ writes # <<>> => video_writer = "opened"
    /\ pc \in {"read_pair", "check", "progress", "release"}
           => video_writer # "none" /\ release_calls = 0
    /\ release_calls >= 1 => pc \in {"exit", "done"}
    /\ release_calls <= 1

----------------------------------------------------------------------------
(* C16 *)

\* pairs skipped so far: one "Error reading frame or mask" line per skip
SkippedCount ==
    Cardinality({j \in 1..Len(printed) : printed[j].msg = "Error reading frame or mask"})

\* pairs whose iteration is over
Visited == IF pc = "progress" THEN i + 1 ELSE i

\* C16: while the loop runs, frames written plus pairs skipped equals the number of
\* pairs visited so far; when the run has completed every index 0..N-1 was visited
\* exactly once (written or skipped, never both, never twice) and the two counts add
\* up to N.
C16_Accounting ==
    /\ pc \in {"read_pair", "check", "progress", "release"}
           => Len(writes) + SkippedCount = Visited
    /\ Completed
           => /\ Len(writes) + SkippedCount = N
              /\ WrittenIndices \cup SkippedIndices = 0..(N - 1)
              /\ WrittenIndices \cap SkippedIndices = {}
              /\ Cardinality(WrittenIndices) = Len(writes)
              /\ Cardinality(SkippedIndices) = SkippedCount

\* a completed run over MaxN pairs with a written and a skipped pair
C16_Witness ==
    /\ Completed /\ N = MaxN
    /\ Len(writes) >= 1 /\ SkippedCount >= 1

----------------------------------------------------------------------------
(* C17, under SpecFair *)

\* C17: every call of ContouredVideoProduction that has started ends (by a return or
\* by an exception), and on the way the loop never goes back: each step of the loop
\* to the next read moves the index forward by one, so no pair is visited twice.
C17_Terminates ==
    /\ (pc = "makedirs") ~> Ended
    /\ [][(pc \in {"check", "progress"} /\ pc' = "read_pair") => i' = i + 1]_vars
    /\ [](i <= N)

\* a call over MaxN pairs has ended after visiting all of them, one of them skipped
C17_Witness ==
    /\ Ended /\ N = MaxN /\ i = N
    /\ SkippedCount = 1

----------------------------------------------------------------------------
(* C18 *)

\* what the callbacks of the run have reported, in every state
ProgressFollowsWrites ==
    /\ Len(progress) <= Len(writes)
    /\ \A k \in 1..Len(progress) : progress[k] = writes[k].index + 1
    /\ \A j, k \in 1..Len(progress) : j < k => progress[j] < progress[k]
    /\ \A k \in 1..Len(progress) : progress[k] <= N
    /\ mode = "gui" => progress_bar.value = (IF progress = <<>> THEN 0 ELSE progress[Len(progress)])

\* a step that invokes the callback
CallbackInvoked == progress' # progress /\ progress' # <<>>

----------------------------------------------------------------------------
(* C19 *)

\* the guards of lines 262, 267, 276, 289 and 293
GuardsHold ==
    /\ input_video_path # "" /\ output_video_dir # ""
    /\ found.isdir /\ found.frames /\ found.masks

\* a step of the GUI that enters ContouredVideoProduction
PipelineCalled == mode = "gui" /\ pc \in {"idle", "done"} /\ pc' = "makedirs"

\* a step of process_video that returns at line 264, 269, 278, 291 or 295
GuardFailed ==
    /\ mode = "gui" /\ pc \in {"idle", "done"}
    /\ \/ messagebox' \in {"No Input Video", "No Output Directory"}
       \/ \E m \in {"Workspace folder does not exist", "No segmented frames found", "No masks found"} :
             log_text' = <<Msg(m)>>

\* C19: the GUI enters ContouredVideoProduction only from a press of Process at which
\* every guard held (both selections made, the workspace folder there, both lists
\* non-empty), and it passes the two lists found and its callback; a press at which a
\* guard failed does not enter it and leaves the progress bar, and the last run's
\* data, as they were.
C19_GuardedCall ==
    [][/\ PipelineCalled
          => /\ GuardsHold'
             /\ Len(segmented_frames') >= 1 /\ Len(masks') >= 1
             /\ progress_callback'
       /\ GuardFailed
          => /\ ~GuardsHold'
             /\ pc' = pc
             /\ UNCHANGED <<progress_bar, arg_vars, run_vars>>]_vars

\* after a run on lists of different lengths that moved the progress bar, Process was
\* pressed again with no mask in the workspace: the bar still shows the earlier run
C19_Witness ==
    /\ mode = "gui" /\ pc = "done"
    /\ Len(masks) # N
    /\ progress_bar.value >= 1
    /\ found.frames /\ ~found.masks
    /\ log_text = <<Msg("No masks found")>>

====
